---------------------------- MODULE Spec2Model ----------------------------
(* Binding of an aggregation request tree to the fast-field columns of a  *)
(* segment: src/aggregation/agg_req_with_accessor.rs.                      *)
EXTENDS Integers, Sequences, FiniteSets, TLC

(***************************************************************************)
(* Bounds of the model.                                                    *)
(***************************************************************************)
MaxDocs == 1
MaxColumns == 3
MaxDepth == 2
MaxMemory == 1

(***************************************************************************)
(* Values of the program.                                                  *)
(***************************************************************************)
ColumnType == {"I64", "U64", "F64", "Str", "Bool", "Bytes", "IpAddr", "DateTime"}

AggregationVariants ==
    {"Range", "Histogram", "DateHistogram", "Terms", "Average", "Count",
     "Max", "Min", "Stats", "Sum", "Percentiles"}

Fields == {"color", "price"}

SegIds == {1, 2}

Ok(v) == [ok |-> TRUE, val |-> v]

Err == [ok |-> FALSE, val |-> "storage fault"]

\* The outcome of unwrap() on None.
Panic == [ok |-> FALSE, val |-> "panic"]

\* Option<T>: a sequence of length 0 (None) or 1 (Some).
None == <<>>

Some(v) == <<v>>

RECURSIVE SeqFilter(_, _)
SeqFilter(s, allowed) ==
    IF s = <<>> THEN <<>>
    ELSE IF Head(s) \in allowed
         THEN <<Head(s)>> \o SeqFilter(Tail(s), allowed)
         ELSE SeqFilter(Tail(s), allowed)

Elems(s) == {s[i] : i \in 1..Len(s)}

(***************************************************************************)
(* The column store of a segment (SegmentReader::fast_fields).  A reader   *)
(* is [num_docs, columns, fault_columns, fault_str]: columns[f] lists the  *)
(* types of the physical columns stored for field f, in the order the      *)
(* store returns them; a lookup of a field in fault_columns (fault_str for *)
(* the dictionary lookup) hits corrupt storage.                            *)
(***************************************************************************)
StoredColumn(reader, field_name, ty) ==
    [origin |-> "stored", field |-> field_name, ty |-> ty,
     num_docs |-> reader.num_docs, value_docs |-> 1..reader.num_docs]

build_empty_column(num_docs) ==
    [origin |-> "empty", field |-> "", ty |-> "",
     num_docs |-> num_docs, value_docs |-> {}]

u64_lenient_for_type_all(reader, allowed_column_types, field_name) ==
    IF field_name \in reader.fault_columns THEN Err
    ELSE LET tys == SeqFilter(reader.columns[field_name], allowed_column_types)
         IN  Ok([i \in 1..Len(tys) |->
                    <<StoredColumn(reader, field_name, tys[i]), tys[i]>>])

\* The first of the matching columns, if any.
first_column(all) ==
    IF ~all.ok THEN all
    ELSE IF all.val = <<>> THEN Ok(None) ELSE Ok(Some(all.val[1]))

u64_lenient_for_type(reader, allowed_column_types, field_name) ==
    first_column(u64_lenient_for_type_all(reader, allowed_column_types, field_name))

str(reader, field_name) ==
    IF field_name \in reader.fault_str THEN Err
    ELSE IF "Str" \in Elems(reader.columns[field_name])
         THEN Ok(Some([dictionary_of |-> field_name]))
         ELSE Ok(None)


(***************************************************************************)
(* The column resolvers.                                                   *)
(***************************************************************************)
get_numeric_or_date_column_types == {"F64", "U64", "I64", "DateTime"}

\* Variant: the list of a terms aggregation without its exclusions.
terms_allowed_any_type == ColumnType

terms_allowed_column_types == {"I64", "U64", "F64", "Str"}

\* Variant: a field without a column is an error.
unwrap_or_fail(found, num_docs) ==
    IF ~found.ok THEN found
    ELSE IF found.val = None THEN Err ELSE Ok(found.val[1])

\* found? .unwrap_or_else(|| (Column::build_empty_column(num_docs), U64))
unwrap_or_empty(found, num_docs) ==
    IF ~found.ok THEN found
    ELSE IF found.val = None
         THEN Ok(<<build_empty_column(num_docs), "U64">>)
         ELSE Ok(found.val[1])

get_ff_reader(reader, field_name, allowed_column_types) ==
    unwrap_or_empty(u64_lenient_for_type(reader, allowed_column_types, field_name),
                    reader.num_docs)

\* Variant: the empty column is never pushed.
push_never(found, num_docs) == found

\* found? ; if it is empty, push the empty column
push_if_empty(found, num_docs) ==
    IF ~found.ok THEN found
    ELSE IF found.val = <<>>
         THEN Ok(<<<<build_empty_column(num_docs), "U64">>>>)
         ELSE found

get_all_ff_reader_or_empty(reader, field_name, allowed_column_types) ==
    push_if_empty(u64_lenient_for_type_all(reader, allowed_column_types, field_name),
                  reader.num_docs)

(***************************************************************************)
(* AggregationWithAccessor::try_from_agg and the recursive binder.  The    *)
(* parameter heap is the number of guards constructed so far: a guard is   *)
(* an object of its own, named by the order of its construction.          *)
(***************************************************************************)
\* Vec::pop: the last element, if any, and the vector without it.
pop(vec) ==
    IF vec = <<>> THEN [item |-> None, rest |-> <<>>]
    ELSE [item |-> Some(vec[Len(vec)]), rest |-> SubSeq(vec, 1, Len(vec) - 1)]

\* Variant: the accessors are taken from the front of the vector.
take_accessors_front(columns) ==
    IF columns = <<>> THEN Panic
    ELSE Ok([first |-> columns[1],
             accessor2 |-> IF Len(columns) >= 2 THEN Some(columns[2]) ELSE None])

\* let first = columns.pop().unwrap(); accessor2 = columns.pop(); first
take_accessors(columns) ==
    LET p1 == pop(columns)
        p2 == pop(p1.rest)
    IN  IF p1.item = None THEN Panic
        ELSE Ok([first |-> p1.item[1], accessor2 |-> p2.item])

\* The Terms arm of the match, from the outcomes of its two lookups.
terms_arm(dict, columns) ==
    IF ~dict.ok THEN dict
    ELSE IF ~columns.ok THEN columns
    ELSE IF ~take_accessors(columns.val).ok THEN take_accessors(columns.val)
    ELSE Ok([accessor |-> take_accessors(columns.val).val.first[1],
             field_type |-> take_accessors(columns.val).val.first[2],
             accessor2 |-> take_accessors(columns.val).val.accessor2,
             str_dict_column |-> dict.val])

terms_accessors(reader, field_name) ==
    terms_arm(str(reader, field_name),
              get_all_ff_reader_or_empty(reader, field_name, terms_allowed_column_types))

\* Every other arm of the match, from the outcome of its lookup.
numeric_arm(found) ==
    IF ~found.ok THEN found
    ELSE Ok([accessor |-> found.val[1],
             field_type |-> found.val[2],
             accessor2 |-> None,
             str_dict_column |-> None])

numeric_accessors(reader, field_name) ==
    numeric_arm(get_ff_reader(reader, field_name, get_numeric_or_date_column_types))

match_agg(agg, reader) ==
    CASE agg.agg.kind = "Range" -> numeric_accessors(reader, agg.agg.field)
      [] agg.agg.kind = "Histogram" -> numeric_accessors(reader, agg.agg.field)
      [] agg.agg.kind = "DateHistogram" -> numeric_accessors(reader, agg.agg.field)
      [] agg.agg.kind = "Terms" -> terms_accessors(reader, agg.agg.field)
      [] agg.agg.kind \in {"Average", "Count", "Max", "Min", "Stats", "Sum"} ->
            numeric_accessors(reader, agg.agg.field)
      [] agg.agg.kind = "Percentiles" -> numeric_accessors(reader, agg.agg.field)

\* AggregationLimits::new_guard
new_guard(heap) == [id |-> heap + 1]

\* Variant: every node holds the guard constructed first.
shared_guard(heap) == [id |-> 1]

\* limits: limits.new_guard()
node_guard(heap) == new_guard(heap)

\* VecWithNames::from_entries
from_entries(entries) ==
    [keys |-> [i \in 1..Len(entries) |-> entries[i][1]],
     values |-> [i \in 1..Len(entries) |-> entries[i][2]]]

from_data(aggs) == [aggs |-> aggs]

\* Variant: the entry is put in front of those pushed before.
push_front(aggss, key, value) == <<<<key, value>>>> \o aggss

\* aggss.push((key.to_string(), ...))
push(aggss, key, value) == Append(aggss, <<key, value>>)

\* Ok(AggregationWithAccessor { .. }), from the outcomes of the match and of
\* the binding of the sub-aggregations.
assemble(agg, resolved, sub) ==
    IF ~resolved.ok THEN resolved
    ELSE IF ~sub.ok THEN sub
    ELSE [ok |-> TRUE,
          val |-> [accessor |-> resolved.val.accessor,
                   accessor2 |-> resolved.val.accessor2,
                   field_type |-> resolved.val.field_type,
                   sub_aggregation |-> sub.val,
                   agg |-> agg,
                   str_dict_column |-> resolved.val.str_dict_column,
                   limits |-> node_guard(sub.heap),
                   column_block_accessor |-> <<>>],
          heap |-> sub.heap + 1]

RECURSIVE try_from_agg(_, _, _, _)
RECURSIVE bind_from(_, _, _, _, _)
RECURSIVE bind_next(_, _, _, _, _, _)

\* The loop of get_aggs_with_segment_accessor_and_validate from its i-th
\* iteration, aggss holding the entries pushed so far.
bind_from(aggs, reader, heap, i, aggss) ==
    IF i > Len(aggs)
    THEN [ok |-> TRUE, val |-> from_data(from_entries(aggss)), heap |-> heap]
    ELSE bind_next(aggs, reader, heap, i, aggss,
                   try_from_agg(aggs[i][2], aggs[i][2].sub_aggregation, reader, heap))

\* Variant: a request that fails to bind is left out of the tree.
bind_next_skip(aggs, reader, heap, i, aggss, bound_node) ==
    IF ~bound_node.ok THEN bind_from(aggs, reader, heap, i + 1, aggss)
    ELSE bind_from(aggs, reader, bound_node.heap, i + 1,
                   push(aggss, aggs[i][1], bound_node.val))

\* The i-th iteration once try_from_agg returned: `?`, then the push.
bind_next(aggs, reader, heap, i, aggss, bound_node) ==
    IF ~bound_node.ok THEN bound_node
    ELSE bind_from(aggs, reader, bound_node.heap, i + 1,
                   push(aggss, aggs[i][1], bound_node.val))

get_aggs_with_segment_accessor_and_validate(aggs, reader, heap) ==
    bind_from(aggs, reader, heap, 1, <<>>)

try_from_agg(agg, sub_aggregation, reader, heap) ==
    assemble(agg, match_agg(agg, reader),
             get_aggs_with_segment_accessor_and_validate(sub_aggregation, reader, heap))

\* Variant: the secondary pair is copied over the primary, not exchanged.
swap_accessor_overwrite(self) ==
    IF self.accessor2 # None
    THEN [self EXCEPT !.accessor = self.accessor2[1][1],
                      !.field_type = self.accessor2[1][2]]
    ELSE self

\* Variant: without a secondary accessor, the primary pair becomes one.
swap_accessor_unconditional(self) ==
    [self EXCEPT !.accessor = IF self.accessor2 # None THEN self.accessor2[1][1] ELSE @,
                 !.field_type = IF self.accessor2 # None THEN self.accessor2[1][2] ELSE @,
                 !.accessor2 = Some(<<self.accessor, self.field_type>>)]

\* Variant: the accessors are exchanged, the type tags are not.
swap_accessor_keeps_type(self) ==
    IF self.accessor2 # None
    THEN [self EXCEPT !.accessor = self.accessor2[1][1],
                      !.accessor2 = Some(<<self.accessor, self.accessor2[1][2]>>)]
    ELSE self

swap_accessor(self) ==
    IF self.accessor2 # None
    THEN [self EXCEPT !.accessor = self.accessor2[1][1],
                      !.field_type = self.accessor2[1][2],
                      !.accessor2 = Some(<<self.accessor, self.field_type>>)]
    ELSE self

(***************************************************************************)
(* Bound Trees: the nodes of a tree are named by their paths, the          *)
(* sequence of positions from the top level down.                          *)
(***************************************************************************)
RECURSIVE Paths(_)
Paths(tree) ==
    UNION {{<<i>>} \cup {<<i>> \o p : p \in Paths(tree.aggs.values[i].sub_aggregation)} :
           i \in 1..Len(tree.aggs.values)}

RECURSIVE NodeAt(_, _)
NodeAt(tree, path) ==
    IF Len(path) = 1 THEN tree.aggs.values[path[1]]
    ELSE NodeAt(tree.aggs.values[path[1]].sub_aggregation, Tail(path))

RECURSIVE SwapAt(_, _)
SwapAt(tree, path) ==
    IF Len(path) = 1
    THEN [tree EXCEPT !.aggs.values[path[1]] = swap_accessor(@)]
    ELSE [tree EXCEPT !.aggs.values[path[1]].sub_aggregation = SwapAt(@, Tail(path))]

\* The same for a request tree.
RECURSIVE ReqPaths(_)
ReqPaths(req) ==
    UNION {{<<i>>} \cup {<<i>> \o p : p \in ReqPaths(req[i][2].sub_aggregation)} :
           i \in 1..Len(req)}

RECURSIVE ReqAt(_, _)
ReqAt(req, path) ==
    IF Len(path) = 1 THEN req[path[1]]
    ELSE ReqAt(req[path[1]][2].sub_aggregation, Tail(path))

(***************************************************************************)
(* The inputs: request trees and segments.                                 *)
(***************************************************************************)
Agg(kind, field, sub) ==
    [agg |-> [kind |-> kind, field |-> field], sub_aggregation |-> sub]

\* One request of every kind on color, and a metric and a terms request on
\* price.
SingleRequests ==
    {<<<<"a", Agg(k, "color", <<>>)>>>> : k \in AggregationVariants}
    \cup {<<<<"a", Agg(k, "price", <<>>)>>>> : k \in {"Average", "Terms"}}

\* A chain of bucket aggregations on color, each holding the next, at most
\* d deep.
RECURSIVE ChainRequests(_)
ChainRequests(d) ==
    IF d = 0 THEN {<<>>}
    ELSE {<<>>} \cup
         {<<<<"a", Agg(k, "color", sub)>>>> :
              k \in {"Terms", "Range"}, sub \in ChainRequests(d - 1)}

\* A metric "b" on price declared before the bucket aggregation "a" on
\* color.
FlatRequests ==
    {<<<<"b", Agg("Average", "price", <<>>)>>>> \o chain :
        chain \in ChainRequests(1) \ {<<>>}}

\* The same, "a" holding a chain of sub-aggregations.
NestedRequests ==
    {<<<<"b", Agg("Average", "price", <<>>)>>>> \o chain :
        chain \in ChainRequests(MaxDepth) \ {<<>>}}

\* The column types the modelled segments store: at least one of each
\* class the two allowed-type lists tell apart.
StoredTypes == {"I64", "F64", "Str", "DateTime", "Bool"}

\* Every list of at most n distinct types.
RECURSIVE Layouts(_, _)
Layouts(types, n) ==
    IF n = 0 THEN {<<>>}
    ELSE LET shorter == Layouts(types, n - 1)
             longest == {q \in shorter : Len(q) = n - 1}
         IN  shorter \cup
             {Append(pr[1], pr[2]) :
                 pr \in {pr \in longest \X types : pr[2] \notin Elems(pr[1])}}

Store(num_docs, color, price, faults) ==
    [num_docs |-> num_docs,
     columns |-> [f \in Fields |-> IF f = "color" THEN color ELSE price],
     fault_columns |-> faults[1],
     fault_str |-> faults[2]]

\* No fault, or one corrupt lookup.
Faults ==
    {<<{}, {}>>, <<{"color"}, {}>>, <<{}, {"color"}>>, <<{"price"}, {}>>}

\* Segments that never indexed price, color stored in every layout.
WideStores ==
    {Store(d, color, <<>>, faults) :
        d \in 0..MaxDocs, color \in Layouts(StoredTypes, MaxColumns),
        faults \in {f \in Faults : "price" \notin f[1]}}

\* Segments with a price column, color absent, a string, or a string and a
\* number.
SmallStores ==
    {Store(MaxDocs, color, <<"F64">>, faults) :
        color \in {<<>>, <<"Str">>, <<"I64", "Str">>}, faults \in Faults}

(***************************************************************************)
(* The state.                                                              *)
(*   aggs     the request tree                                             *)
(*   reader   the segments, each with its column store                     *)
(*   bound    per segment, the outcome of binding: Unbound, Ok with the    *)
(*            Bound Tree, Err, or Panic                                    *)
(*   memory   the counter of every guard constructed                       *)
(*   heap     the number of guards constructed                             *)
(*   bound0   per segment, the Bound Tree as binding returned it           *)
(*   odd      per segment, the nodes swap_accessor was called on an odd    *)
(*            number of times                                              *)
(***************************************************************************)
VARIABLES aggs, reader, bound, memory, heap, bound0, odd

vars == <<aggs, reader, bound, memory, heap, bound0, odd>>

EmptyTree == from_data(from_entries(<<>>))

Unbound == [status |-> "Unbound", tree |-> EmptyTree]

Init ==
    /\ \/ /\ aggs \in SingleRequests
          /\ reader \in [{1} -> WideStores]
       \/ /\ aggs \in NestedRequests
          /\ reader \in [{1} -> SmallStores]
       \/ /\ aggs \in FlatRequests
          /\ reader \in [SegIds -> {st \in SmallStores : st.fault_columns = {}}]
    /\ bound = [s \in DOMAIN reader |-> Unbound]
    /\ memory = <<>>
    /\ heap = 0
    /\ bound0 = [s \in DOMAIN reader |-> EmptyTree]
    /\ odd = [s \in DOMAIN reader |-> {}]

\* The caller of the binder receives r for segment s.
Returned(s, r) ==
    IF r.ok
    THEN /\ bound' = [bound EXCEPT ![s] = [status |-> "Ok", tree |-> r.val]]
         /\ bound0' = [bound0 EXCEPT ![s] = r.val]
         /\ heap' = r.heap
         /\ memory' = [g \in 1..r.heap |-> IF g \in DOMAIN memory THEN memory[g] ELSE 0]
    ELSE /\ bound' = [bound EXCEPT ![s] =
                         [status |-> IF r = Panic THEN "Panic" ELSE "Err",
                          tree |-> EmptyTree]]
         /\ UNCHANGED <<bound0, heap, memory>>

\* The execution engine binds the request tree to segment s.
Bind(s) ==
    /\ bound[s].status = "Unbound"
    /\ Returned(s, get_aggs_with_segment_accessor_and_validate(aggs, reader[s], heap))
    /\ UNCHANGED <<aggs, reader, odd>>

\* The execution engine calls swap_accessor on a node of a Bound Tree.
SwapAccessor(s, path) ==
    /\ bound[s].status = "Ok"
    /\ path \in Paths(bound[s].tree)
    /\ bound' = [bound EXCEPT ![s].tree = SwapAt(@, path)]
    /\ odd' = [odd EXCEPT ![s] = IF path \in @ THEN @ \ {path} ELSE @ \cup {path}]
    /\ UNCHANGED <<aggs, reader, memory, heap, bound0>>

TotalMemory == LET RECURSIVE Sum(_)
                   Sum(g) == IF g = 0 THEN 0 ELSE memory[g] + Sum(g - 1)
               IN  Sum(Len(memory))

\* The execution engine charges memory to the guard of a node.
AddMemoryConsumed(s, path) ==
    /\ bound[s].status = "Ok"
    /\ path \in Paths(bound[s].tree)
    /\ TotalMemory < MaxMemory
    /\ memory' = [memory EXCEPT ![NodeAt(bound[s].tree, path).limits.id] = @ + 1]
    /\ UNCHANGED <<aggs, reader, bound, heap, bound0, odd>>

AllPaths == ReqPaths(aggs)

Next ==
    \/ \E s \in DOMAIN reader : Bind(s)
    \/ \E s \in DOMAIN reader : \E path \in AllPaths : SwapAccessor(s, path)
    \/ \E s \in DOMAIN reader : \E path \in AllPaths : AddMemoryConsumed(s, path)

Spec == Init /\ [][Next]_vars

(***************************************************************************)
(* What the properties speak of.                                           *)
(***************************************************************************)
BoundSegs == {s \in DOMAIN reader : bound[s].status = "Ok"}

\* The nodes of the Bound Trees, each a segment and a path.
BoundNodes == UNION {{<<s, p>> : p \in Paths(bound[s].tree)} : s \in BoundSegs}

Node(n) == NodeAt(bound[n[1]].tree, n[2])

Node0(n) == NodeAt(bound0[n[1]], n[2])

Kind(node) == node.agg.agg.kind

FieldOf(node) == node.agg.agg.field

\* The physical columns segment s stores for a field, those of the types a
\* terms aggregation reads, in the order of the store.
TermsColumns(s, field) ==
    SeqFilter(reader[s].columns[field], {"I64", "U64", "F64", "Str"})

\* The requests a lookup of which hits corrupt storage in segment s.
FaultyRequests(s) ==
    {p \in AllPaths :
        \/ ReqAt(aggs, p)[2].agg.field \in reader[s].fault_columns
        \/ /\ ReqAt(aggs, p)[2].agg.kind = "Terms"
           /\ ReqAt(aggs, p)[2].agg.field \in reader[s].fault_str}

(***************************************************************************)
(* C1: a request of any kind on a field the segment stores no column for   *)
(* binds, when no lookup faults, to a node whose primary accessor is the   *)
(* synthesized empty column: as long as the segment, no document with a    *)
(* value, type tag U64.  Binding fails only where a lookup faults.         *)
(***************************************************************************)
C1_MissingFieldBindsEmpty ==
    /\ \A s \in DOMAIN reader :
          (bound[s].status # "Unbound" /\ FaultyRequests(s) = {})
              => bound[s].status = "Ok"
    /\ \A n \in BoundNodes :
          reader[n[1]].columns[FieldOf(Node(n))] = <<>> =>
              /\ Node(n).accessor.origin = "empty"
              /\ Node(n).accessor.num_docs = reader[n[1]].num_docs
              /\ \A d \in 1..reader[n[1]].num_docs : d \notin Node(n).accessor.value_docs
              /\ Node(n).field_type = "U64"

C1_Witness ==
    \E n \in BoundNodes :
        /\ reader[n[1]].columns[FieldOf(Node(n))] = <<>>
        /\ reader[n[1]].num_docs = MaxDocs
        /\ Kind(Node(n)) = "Average"
        /\ Node(n).accessor.origin = "empty"

(***************************************************************************)
(* C2, as claimed: a terms node's primary accessor is the first column     *)
(* resolve-all returned and its secondary the second.                      *)
(***************************************************************************)
C2_FirstTwoColumns ==
    \A n \in BoundNodes :
        Kind(Node0(n)) = "Terms" =>
            LET cols == TermsColumns(n[1], FieldOf(Node0(n)))
            IN  Len(cols) >= 1 =>
                  /\ Node0(n).field_type = cols[1]
                  /\ Node0(n).accessor.ty = cols[1]
                  /\ IF Len(cols) >= 2
                     THEN /\ Node0(n).accessor2 # None
                          /\ Node0(n).accessor2[1][2] = cols[2]
                     ELSE Node0(n).accessor2 = None

(***************************************************************************)
(* C2, amended: of the columns c1..cn resolve-all returned, a terms node's *)
(* primary accessor is the last, cn, its secondary the one before, cn-1,   *)
(* when n >= 2 (absent when n = 1), and the columns before these two are   *)
(* not held by the node.                                                   *)
(***************************************************************************)
C2_LastTwoColumns ==
    \A n \in BoundNodes :
        Kind(Node0(n)) = "Terms" =>
            LET cols == TermsColumns(n[1], FieldOf(Node0(n)))
                last == Len(cols)
            IN  last >= 1 =>
                  /\ Node0(n).field_type = cols[last]
                  /\ Node0(n).accessor = StoredColumn(reader[n[1]], FieldOf(Node0(n)), cols[last])
                  /\ IF last >= 2
                     THEN Node0(n).accessor2 =
                            Some(<<StoredColumn(reader[n[1]], FieldOf(Node0(n)), cols[last - 1]),
                                   cols[last - 1]>>)
                     ELSE Node0(n).accessor2 = None

C2_Witness ==
    \E n \in BoundNodes :
        /\ Kind(Node0(n)) = "Terms"
        /\ Len(TermsColumns(n[1], FieldOf(Node0(n)))) = MaxColumns
        /\ Node0(n).accessor2 # None

(***************************************************************************)
(* C10: whenever get_all_ff_reader_or_empty returns Ok its list holds at   *)
(* least one column, whatever the field and the allowed types, so the      *)
(* unwrap in the terms arm never panics and a bound terms node has a       *)
(* primary accessor.                                                       *)
(***************************************************************************)
C10_AtLeastOneColumn ==
    /\ \A s \in DOMAIN reader : bound[s].status # "Panic"
    /\ \A s \in DOMAIN reader : \A f \in Fields :
          \A allowed \in {terms_allowed_column_types,
                          get_numeric_or_date_column_types, ColumnType, {}} :
              get_all_ff_reader_or_empty(reader[s], f, allowed).ok =>
                  Len(get_all_ff_reader_or_empty(reader[s], f, allowed).val) >= 1
    /\ \A n \in BoundNodes :
          Kind(Node(n)) = "Terms" => Node(n).accessor.num_docs = reader[n[1]].num_docs

C10_Witness ==
    \E n \in BoundNodes :
        /\ Kind(Node(n)) = "Terms"
        /\ reader[n[1]].columns[FieldOf(Node(n))] # <<>>
        /\ TermsColumns(n[1], FieldOf(Node(n))) = <<>>
        /\ Node(n).accessor.origin = "empty"

(***************************************************************************)
(* C3: a terms node on a field with two matching physical columns has a    *)
(* secondary accessor; after an even number of swap_accessor calls a       *)
(* node's primary accessor and type and its secondary accessor and type    *)
(* are those binding gave it, after an odd number they are those with the  *)
(* two pairs exchanged.                                                    *)
(***************************************************************************)
Accessors(node) == <<node.accessor, node.field_type, node.accessor2>>

C3_SwapInvolution ==
    \A n \in BoundNodes :
        /\ (Kind(Node0(n)) = "Terms" /\ Len(TermsColumns(n[1], FieldOf(Node0(n)))) = 2)
              => Node0(n).accessor2 # None
        /\ n[2] \notin odd[n[1]] => Accessors(Node(n)) = Accessors(Node0(n))
        /\ (n[2] \in odd[n[1]] /\ Node0(n).accessor2 # None) =>
              Accessors(Node(n)) =
                  <<Node0(n).accessor2[1][1], Node0(n).accessor2[1][2],
                    Some(<<Node0(n).accessor, Node0(n).field_type>>)>>
        /\ (n[2] \in odd[n[1]] /\ Node0(n).accessor2 = None) =>
              Accessors(Node(n)) = Accessors(Node0(n))

C3_Witness ==
    \E n \in BoundNodes :
        /\ Kind(Node0(n)) = "Terms"
        /\ Len(TermsColumns(n[1], FieldOf(Node0(n)))) = 2
        /\ n[2] \in odd[n[1]]
        /\ Node(n).accessor = Node0(n).accessor2[1][1]

\* The step is a call of swap_accessor on node n.
SwapsNode(n) == (n[2] \in odd[n[1]]) # (n[2] \in odd'[n[1]])

(***************************************************************************)
(* C4: a terms node on a field with exactly one matching physical column,  *)
(* and a node of any other kind, has no secondary accessor, and            *)
(* swap_accessor leaves such a node as it was, every field of it.          *)
(***************************************************************************)
C4_SwapNoOp ==
    [][\A n \in BoundNodes :
          /\ (\/ Kind(Node(n)) # "Terms"
              \/ Len(TermsColumns(n[1], FieldOf(Node(n)))) = 1)
                => Node(n).accessor2 = None
          /\ (SwapsNode(n) /\ Node(n).accessor2 = None) =>
                /\ NodeAt(bound'[n[1]].tree, n[2]) = Node(n)
                /\ bound'[n[1]] = bound[n[1]]]_vars

C4_Witness ==
    \E n \in BoundNodes :
        /\ Kind(Node(n)) = "Terms"
        /\ Len(TermsColumns(n[1], FieldOf(Node(n)))) = 1
        /\ Node(n).accessor2 = None
        /\ n[2] \in odd[n[1]]

(***************************************************************************)
(* C5: on a node with a secondary accessor, swap_accessor makes the        *)
(* primary accessor and type the former secondary pair and the secondary   *)
(* the former primary pair, and changes no other field; so the pass before *)
(* the call and the pass after it read the two physical columns binding    *)
(* found, each once, each with its own type tag.                           *)
(***************************************************************************)
C5_SwapExchanges ==
    [][\A n \in BoundNodes :
          (SwapsNode(n) /\ Node(n).accessor2 # None) =>
              LET before == Node(n)
                  after == NodeAt(bound'[n[1]].tree, n[2])
              IN  /\ after.accessor = before.accessor2[1][1]
                  /\ after.field_type = before.accessor2[1][2]
                  /\ after.accessor2 = Some(<<before.accessor, before.field_type>>)
                  /\ after.str_dict_column = before.str_dict_column
                  /\ after.sub_aggregation = before.sub_aggregation
                  /\ after.limits = before.limits
                  /\ after.column_block_accessor = before.column_block_accessor
                  /\ after.agg = before.agg
                  /\ {<<before.accessor, before.field_type>>,
                      <<after.accessor, after.field_type>>}
                       = {<<Node0(n).accessor, Node0(n).field_type>>,
                          Node0(n).accessor2[1]}
                  /\ before.accessor # after.accessor
                  /\ before.accessor.ty = before.field_type
                  /\ after.accessor.ty = after.field_type]_vars

C5_Witness ==
    \E n \in BoundNodes :
        /\ Node(n).accessor2 # None
        /\ n[2] \in odd[n[1]]
        /\ Node(n).field_type = Node(n).accessor.ty
        /\ Node(n).field_type # Node0(n).field_type

(***************************************************************************)
(* C6: a Bound Tree has the shape of the request tree: at every level one  *)
(* node for each request, under the same names in the same order, each     *)
(* holding a copy of its request and, as its sub-tree, the binding of the  *)
(* request's sub-aggregations; so it is as deep as the request tree.       *)
(***************************************************************************)
RECURSIVE Isomorphic(_, _)
Isomorphic(req, tree) ==
    /\ Len(tree.aggs.keys) = Len(req)
    /\ Len(tree.aggs.values) = Len(req)
    /\ \A i \in 1..Len(req) :
          /\ tree.aggs.keys[i] = req[i][1]
          /\ tree.aggs.values[i].agg = req[i][2]
          /\ Isomorphic(req[i][2].sub_aggregation, tree.aggs.values[i].sub_aggregation)

Depth(paths) == IF paths = {} THEN 0 ELSE CHOOSE k \in {Len(p) : p \in paths} :
                                             \A p \in paths : Len(p) <= k

C6_SameShape ==
    \A s \in BoundSegs :
        /\ Isomorphic(aggs, bound[s].tree)
        /\ Paths(bound[s].tree) = AllPaths
        /\ Depth(Paths(bound[s].tree)) = Depth(AllPaths)

C6_Witness ==
    \E s \in BoundSegs :
        /\ Depth(Paths(bound[s].tree)) = MaxDepth
        /\ bound[s].tree.aggs.keys = <<"b", "a">>

(***************************************************************************)
(* C7: binding returns Err, and no Bound Tree, when a lookup of any        *)
(* request of the tree, at any depth, hits a storage fault, and Ok only    *)
(* when no lookup of the tree does.                                        *)
(***************************************************************************)
C7_AllOrNothing ==
    \A s \in DOMAIN reader :
        bound[s].status # "Unbound" =>
            /\ FaultyRequests(s) # {} =>
                  /\ bound[s].status = "Err"
                  /\ bound[s].tree = EmptyTree
                  /\ bound0[s] = EmptyTree
            /\ bound[s].status = "Ok" => FaultyRequests(s) = {}

C7_Witness ==
    \E s \in DOMAIN reader :
        /\ bound[s].status = "Err"
        /\ FaultyRequests(s) # {}
        /\ \A p \in FaultyRequests(s) : Len(p) >= 2
        /\ Len(aggs) = 2

(***************************************************************************)
(* C8: every node of every Bound Tree holds a guard of its own, one guard  *)
(* constructed for each node, also across the trees bound to different     *)
(* segments, and a step that changes the counter of one node's guard       *)
(* changes the counter of no other node's guard.                           *)
(***************************************************************************)
GuardsOf(nodes) == {Node(n).limits.id : n \in nodes}

GuardsApart ==
    /\ Cardinality(GuardsOf(BoundNodes)) = Cardinality(BoundNodes)
    /\ GuardsOf(BoundNodes) = DOMAIN memory
    /\ heap = Cardinality(BoundNodes)

C8_GuardsIndependent ==
    [][/\ GuardsApart'
       /\ Cardinality({n \in BoundNodes :
              memory'[Node(n).limits.id] # memory[Node(n).limits.id]}) <= 1]_vars

C8_Witness ==
    /\ BoundSegs = SegIds
    /\ \E n \in BoundNodes : \E m \in BoundNodes :
          /\ n[1] # m[1]
          /\ n[2] = m[2]
          /\ memory[Node(n).limits.id] = MaxMemory
          /\ memory[Node(m).limits.id] = 0

(***************************************************************************)
(* C9: at any time a node has a secondary accessor only if it is a terms   *)
(* node and its segment stores at least two physical columns of the types  *)
(* I64, U64, F64, Str for its field.                                       *)
(***************************************************************************)
C9_SecondaryOnlyForTerms ==
    \A n \in BoundNodes :
        Node(n).accessor2 # None =>
            /\ Kind(Node(n)) = "Terms"
            /\ Cardinality({i \in 1..Len(reader[n[1]].columns[FieldOf(Node(n))]) :
                   reader[n[1]].columns[FieldOf(Node(n))][i] \in {"I64", "U64", "F64", "Str"}}) >= 2

C9_Witness ==
    \E n \in BoundNodes :
        /\ Node(n).accessor2 # None
        /\ Len(n[2]) >= 2
        /\ n[2] \in odd[n[1]]
        /\ \E m \in BoundNodes : m[1] = n[1] /\ Kind(Node(m)) # "Terms"

=============================================================================
